---- MODULE Spec2Model ----
(***************************************************************************)
(* Model of the telemetry analysis in examples/basic_usage.py of            *)
(* tigo_python: the CSV row loop that parses "timestamp,power" rows and     *)
(* folds them into 15-minute chunks (lines 323-389), and the efficiency     *)
(* report the example reads from client.calculate_system_efficiency         *)
(* (lines 202-236), and the panels it reads from                            *)
(* client.find_underperforming_panels (lines 246-272).                      *)
(*                                                                          *)
(* Text is modelled as sequences of one-character strings, Python floats    *)
(* as IEEE-754 binary64 values (sign, 53-bit significand, exponent) with    *)
(* round-to-nearest-even, and datetimes as records of their fields.         *)
(***************************************************************************)
EXTENDS Integers, Sequences, FiniteSets, TLC

(***************************************************************************)
(* Natural numbers of arbitrary size, as little-endian sequences of limbs.  *)
(* The significand of a binary64 value has 53 bits, which is more than one  *)
(* machine integer of the checker holds.                                    *)
(***************************************************************************)
LimbBits == 20

LimbBase == 2^LimbBits

RECURSIVE BigTrim(_)
BigTrim(a) ==
    IF a = <<>> THEN <<>>
    ELSE IF a[Len(a)] = 0 THEN BigTrim(SubSeq(a, 1, Len(a) - 1))
    ELSE a

BigFromNat(n) == BigTrim(<<n % LimbBase, n \div LimbBase>>)

BigRest(a) == IF a = <<>> THEN <<>> ELSE Tail(a)

BigLow(a) == IF a = <<>> THEN 0 ELSE Head(a)

RECURSIVE BigAddC(_, _, _)
BigAddC(a, b, c) ==
    IF a = <<>> /\ b = <<>> THEN (IF c = 0 THEN <<>> ELSE <<c>>)
    ELSE LET s == BigLow(a) + BigLow(b) + c
         IN  <<s % LimbBase>> \o BigAddC(BigRest(a), BigRest(b), s \div LimbBase)

BigAdd(a, b) == BigAddC(a, b, 0)

\* a - b - c for a >= b + c
RECURSIVE BigSubB(_, _, _)
BigSubB(a, b, c) ==
    IF a = <<>> THEN <<>>
    ELSE LET d == BigLow(a) - BigLow(b) - c
         IN  IF d < 0
             THEN <<d + LimbBase>> \o BigSubB(BigRest(a), BigRest(b), 1)
             ELSE <<d>> \o BigSubB(BigRest(a), BigRest(b), 0)

BigSub(a, b) == BigTrim(BigSubB(a, b, 0))

\* -1, 0, 1 as a < b, a = b, a > b (both trimmed)
RECURSIVE BigCmp(_, _)
BigCmp(a, b) ==
    IF Len(a) # Len(b) THEN (IF Len(a) < Len(b) THEN -1 ELSE 1)
    ELSE IF a = <<>> THEN 0
    ELSE IF a[Len(a)] # b[Len(b)] THEN (IF a[Len(a)] < b[Len(b)] THEN -1 ELSE 1)
    ELSE BigCmp(BigTrim(SubSeq(a, 1, Len(a) - 1)), BigTrim(SubSeq(b, 1, Len(b) - 1)))

RECURSIVE NatBitLen(_)
NatBitLen(n) == IF n = 0 THEN 0 ELSE 1 + NatBitLen(n \div 2)

BigBitLen(a) == IF a = <<>> THEN 0 ELSE (Len(a) - 1) * LimbBits + NatBitLen(a[Len(a)])

\* a * 2^r for 0 <= r < LimbBits, limb by limb with the carry c
RECURSIVE BigShlBits(_, _, _)
BigShlBits(a, r, c) ==
    IF a = <<>> THEN (IF c = 0 THEN <<>> ELSE <<c>>)
    ELSE LET keep == 2^(LimbBits - r)
         IN  <<(Head(a) % keep) * 2^r + c>> \o BigShlBits(Tail(a), r, Head(a) \div keep)

BigShl(a, k) ==
    IF a = <<>> THEN <<>>
    ELSE [i \in 1..(k \div LimbBits) |-> 0] \o BigShlBits(a, k % LimbBits, 0)

\* floor(a / 2^r) for 0 <= r < LimbBits
RECURSIVE BigShrBits(_, _)
BigShrBits(a, r) ==
    IF a = <<>> THEN <<>>
    ELSE LET next == IF Len(a) > 1 THEN a[2] ELSE 0
         IN  <<(Head(a) \div 2^r) + (next % 2^r) * 2^(LimbBits - r)>>
                 \o BigShrBits(Tail(a), r)

BigShr(a, k) ==
    IF k \div LimbBits >= Len(a) THEN <<>>
    ELSE BigTrim(BigShrBits(SubSeq(a, (k \div LimbBits) + 1, Len(a)), k % LimbBits))

\* bit i (0 = least significant) of a
BigBit(a, i) ==
    IF (i \div LimbBits) + 1 > Len(a) THEN 0
    ELSE (a[(i \div LimbBits) + 1] \div 2^(i % LimbBits)) % 2

\* TRUE iff some bit of a below bit k is set
BigLowNonZero(a, k) == BigShl(BigShr(a, k), k) # a

\* quotient and remainder of a by 0 < n <= 2^10, from the top limb down
RECURSIVE BigDivRem(_, _, _)
BigDivRem(a, n, r) ==
    IF a = <<>> THEN [quo |-> <<>>, rem |-> r]
    ELSE LET cur  == r * LimbBase + a[Len(a)]
             rest == BigDivRem(SubSeq(a, 1, Len(a) - 1), n, cur % n)
         IN  [quo |-> rest.quo \o <<cur \div n>>, rem |-> rest.rem]

BigDivSmall(a, n) ==
    LET d == BigDivRem(a, n, 0) IN [quo |-> BigTrim(d.quo), rem |-> d.rem]

(***************************************************************************)
(* Python float: IEEE-754 binary64.  A value is (-1)^neg * man * 2^exp with *)
(* man = <<>> for zero and 2^52 <= man < 2^53 otherwise, so that equal      *)
(* numbers are equal records.  Results are rounded to nearest, ties to      *)
(* even.  The model's values stay far from the overflow and subnormal       *)
(* ranges; -0.0 is not told from 0.0 (they compare equal in Python).        *)
(***************************************************************************)
MantissaBits == 53

FloatZero == [neg |-> FALSE, man |-> <<>>, exp |-> 0]

\* the binary64 nearest to (-1)^neg * (N + s) * 2^e, where 0 <= s < 1 and
\* sticky tells whether s > 0
FloatRound(neg, N, e, sticky) ==
    LET L == BigBitLen(N)
        d == L - MantissaBits
    IN  IF N = <<>> THEN FloatZero
        ELSE IF d <= 0 THEN [neg |-> neg, man |-> BigShl(N, -d), exp |-> e + d]
        ELSE LET q     == BigShr(N, d)
                 half  == BigBit(N, d - 1) = 1
                 below == sticky \/ BigLowNonZero(N, d - 1)
                 up    == half /\ (below \/ BigBit(q, 0) = 1)
                 q1    == IF up THEN BigAdd(q, <<1>>) ELSE q
             IN  IF BigBitLen(q1) > MantissaBits
                 THEN [neg |-> neg, man |-> BigShr(q1, 1), exp |-> e + d + 1]
                 ELSE [neg |-> neg, man |-> q1, exp |-> e + d]

\* x + y
FloatAdd(x, y) ==
    IF x.man = <<>> THEN y
    ELSE IF y.man = <<>> THEN x
    ELSE LET e == IF x.exp < y.exp THEN x.exp ELSE y.exp
             X == BigShl(x.man, x.exp - e)
             Y == BigShl(y.man, y.exp - e)
             c == BigCmp(X, Y)
         IN  IF x.neg = y.neg THEN FloatRound(x.neg, BigAdd(X, Y), e, FALSE)
             ELSE IF c = 0 THEN FloatZero
             ELSE IF c > 0 THEN FloatRound(x.neg, BigSub(X, Y), e, FALSE)
             ELSE FloatRound(y.neg, BigSub(Y, X), e, FALSE)

\* x / n for an int n > 0
FloatDivInt(x, n) ==
    LET d == BigDivSmall(BigShl(x.man, 3 * LimbBits), n)
    IN  FloatRound(x.neg, d.quo, x.exp - 3 * LimbBits, d.rem # 0)

\* x < y
FloatLess(x, y) ==
    LET e == IF x.exp < y.exp THEN x.exp ELSE y.exp
        c == BigCmp(BigShl(x.man, x.exp - e), BigShl(y.man, y.exp - e))
    IN  IF x.neg # y.neg THEN x.neg /\ (x.man # <<>> \/ y.man # <<>>)
        ELSE IF x.neg THEN c > 0 ELSE c < 0

FloatLeq(x, y) == x = y \/ FloatLess(x, y)

\* the float of the decimal numeral digits * 10^-frac, 0 <= frac <= 3
FloatOfDecimal(neg, digits, frac) ==
    LET d == BigDivSmall(BigShl(BigFromNat(digits), 4 * LimbBits), 10^frac)
    IN  FloatRound(neg, d.quo, -(4 * LimbBits), d.rem # 0)

(***************************************************************************)
(* Text.  A str is a sequence of one-character strings.                     *)
(***************************************************************************)
DigitChars == <<"0", "1", "2", "3", "4", "5", "6", "7", "8", "9">>

IsDigitChar(c) == \E i \in 1..Len(DigitChars) : DigitChars[i] = c

DigitValue(c) == (CHOOSE i \in 1..Len(DigitChars) : DigitChars[i] = c) - 1

RECURSIVE IntOfDigits(_)
IntOfDigits(s) ==
    IF s = <<>> THEN 0
    ELSE 10 * IntOfDigits(SubSeq(s, 1, Len(s) - 1)) + DigitValue(s[Len(s)])

\* str.split(sep): the fields between the occurrences of sep
RECURSIVE StrSplit(_, _)
StrSplit(s, sep) ==
    IF \A i \in 1..Len(s) : s[i] # sep THEN <<s>>
    ELSE LET i == CHOOSE j \in 1..Len(s) :
                      s[j] = sep /\ \A k \in 1..(j - 1) : s[k] # sep
         IN  <<SubSeq(s, 1, i - 1)>> \o StrSplit(SubSeq(s, i + 1, Len(s)), sep)

\* str.replace(old, ''): s without the occurrences of the character old
StrRemove(s, old) == SelectSeq(s, LAMBDA c : c # old)

\* str.isdigit(): not empty and every character a digit
StrIsDigit(s) == s # <<>> /\ \A i \in 1..Len(s) : IsDigitChar(s[i])

\* the longest prefix of s made of digits
RECURSIVE DigitRun(_)
DigitRun(s) ==
    IF s = <<>> \/ ~IsDigitChar(Head(s)) THEN <<>>
    ELSE <<Head(s)>> \o DigitRun(Tail(s))

RECURSIVE SkipSpaces(_)
SkipSpaces(s) == IF s # <<>> /\ Head(s) = " " THEN SkipSpaces(Tail(s)) ELSE s

(***************************************************************************)
(* datetime.strptime.  A format is a sequence of directives ("%Y", ...)    *)
(* and literal characters, as _strptime compiles it to a regular            *)
(* expression: %Y is four digits, the other numeric directives one or two   *)
(* digits within the directive's range; a blank of the format matches one   *)
(* or more blanks; text left over after the format is an error.  The        *)
(* datetime constructor then rejects a day the month does not have and a    *)
(* second above 59.  The result is a datetime or the value ValueError.      *)
(***************************************************************************)
ValueError == [raised |-> "ValueError"]

Directives == {"%Y", "%m", "%d", "%H", "%M", "%S"}

DirectiveOk(f, run) ==
    LET v == IntOfDigits(run)
    IN  CASE f = "%Y" -> Len(run) = 4
          [] f = "%m" -> Len(run) \in 1..2 /\ v \in 1..12
          [] f = "%d" -> Len(run) \in 1..2 /\ v \in 1..31
          [] f = "%H" -> Len(run) \in 1..2 /\ v \in 0..23
          [] f = "%M" -> Len(run) \in 1..2 /\ v \in 0..59
          [] f = "%S" -> Len(run) \in 1..2 /\ v \in 0..61

\* the numbers the directives of fmt match in s, or ValueError
RECURSIVE StrptimeScan(_, _)
StrptimeScan(s, fmt) ==
    IF fmt = <<>> THEN (IF s = <<>> THEN [found |-> <<>>] ELSE ValueError)
    ELSE LET f == Head(fmt)
         IN  IF f \in Directives
             THEN IF f = "%d" /\ Len(s) >= 2 /\ s[1] = " "
                     /\ IsDigitChar(s[2]) /\ s[2] # "0"
                  THEN LET r == StrptimeScan(SubSeq(s, 3, Len(s)), Tail(fmt))
                       IN  IF r = ValueError THEN ValueError
                           ELSE [found |-> <<DigitValue(s[2])>> \o r.found]
                  ELSE LET run == DigitRun(s)
                       IN  IF ~DirectiveOk(f, run) THEN ValueError
                           ELSE LET r == StrptimeScan(
                                        SubSeq(s, Len(run) + 1, Len(s)), Tail(fmt))
                                IN  IF r = ValueError THEN ValueError
                                    ELSE [found |-> <<IntOfDigits(run)>> \o r.found]
             ELSE IF s = <<>> \/ Head(s) # f THEN ValueError
             ELSE IF f = " " THEN StrptimeScan(SkipSpaces(s), Tail(fmt))
             ELSE StrptimeScan(Tail(s), Tail(fmt))

IsLeapYear(y) == y % 4 = 0 /\ (y % 100 # 0 \/ y % 400 = 0)

DaysInMonth(y, m) ==
    IF m = 2 THEN (IF IsLeapYear(y) THEN 29 ELSE 28)
    ELSE IF m \in {4, 6, 9, 11} THEN 30
    ELSE 31

\* Strptime without the checks of the datetime constructor
StrptimeUnchecked(s, fmt) ==
    LET r == StrptimeScan(s, fmt)
        v == r.found
    IN  IF r = ValueError THEN ValueError
        ELSE [year |-> v[1], month |-> v[2], day |-> v[3],
              hour |-> v[4], minute |-> v[5], second |-> v[6]]

Strptime(s, fmt) ==
    LET r == StrptimeScan(s, fmt)
        v == r.found
    IN  IF r = ValueError THEN ValueError
        ELSE IF v[1] < 1 \/ v[3] > DaysInMonth(v[1], v[2]) \/ v[6] > 59
        THEN ValueError
        ELSE [year |-> v[1], month |-> v[2], day |-> v[3],
              hour |-> v[4], minute |-> v[5], second |-> v[6]]

\* '%Y/%m/%d %H:%M:%S' and '%Y-%m-%d %H:%M:%S'
SlashFormat == <<"%Y", "/", "%m", "/", "%d", " ", "%H", ":", "%M", ":", "%S">>

DashFormat == <<"%Y", "-", "%m", "-", "%d", " ", "%H", ":", "%M", ":", "%S">>

\* a <= b for datetimes
DatetimeLeq(a, b) ==
    LET ka == <<a.year, a.month, a.day, a.hour, a.minute, a.second>>
        kb == <<b.year, b.month, b.day, b.hour, b.minute, b.second>>
    IN  \/ ka = kb
        \/ \E i \in 1..6 : ka[i] < kb[i] /\ \A j \in 1..(i - 1) : ka[j] = kb[j]

(***************************************************************************)
(* float(str) on the strings the loop passes to it: digits, '.' and '-'     *)
(* with at least one digit.  float accepts an optional sign followed by     *)
(* digits with at most one point, and raises ValueError on the rest.        *)
(***************************************************************************)
FloatOfStr(s) ==
    LET neg   == s # <<>> /\ Head(s) = "-"
        body  == IF neg THEN Tail(s) ELSE s
        digs  == StrRemove(body, ".")
        point == CHOOSE i \in 1..(Len(body) + 1) :
                     (i = Len(body) + 1 \/ body[i] = ".")
                     /\ \A k \in 1..(i - 1) : body[k] # "."
        frac  == IF point > Len(body) THEN 0 ELSE Len(body) - point
    IN  IF ~StrIsDigit(digs) \/ Len(body) - Len(digs) > 1 THEN ValueError
        ELSE FloatOfDecimal(neg, IntOfDigits(digs), frac)

(***************************************************************************)
(* The row loop of main(): lines 323-389.                                   *)
(***************************************************************************)
None == [none |-> TRUE]

ChunkMinutes == 15

\* lines 335-341: the first format, then the second; ValueError stands for
\* the `continue` of line 341
ParseTimestamp(timestamp_str) ==
    LET first == Strptime(timestamp_str, SlashFormat)
    IN  IF first # ValueError THEN first ELSE Strptime(timestamp_str, DashFormat)

\* ParsePower admitting no minus sign
ParsePowerUnsigned(power_str) ==
    IF StrIsDigit(StrRemove(power_str, "."))
    THEN LET f == FloatOfStr(power_str)
         IN  IF f = ValueError THEN FloatZero ELSE f
    ELSE FloatZero

\* lines 344-347
ParsePower(power_str) ==
    IF StrIsDigit(StrRemove(StrRemove(power_str, "."), "-"))
    THEN LET f == FloatOfStr(power_str)
         IN  IF f = ValueError THEN FloatZero ELSE f
    ELSE FloatZero

\* ChunkTime with the seconds kept
ChunkTimeKeepsSecond(timestamp) ==
    [timestamp EXCEPT !.minute = (timestamp.minute \div ChunkMinutes) * ChunkMinutes]

\* ChunkTime giving the end of the window
ChunkTimeOfWindowEnd(timestamp) ==
    [timestamp EXCEPT !.minute = (timestamp.minute \div ChunkMinutes) * ChunkMinutes
                                     + ChunkMinutes,
                      !.second = 0]

\* lines 350-351
ChunkTime(timestamp) ==
    [timestamp EXCEPT !.minute = (timestamp.minute \div ChunkMinutes) * ChunkMinutes,
                      !.second = 0]

\* sum(chunk): from 0, left to right
RECURSIVE FloatSum(_)
FloatSum(chunk) ==
    IF chunk = <<>> THEN FloatZero
    ELSE FloatAdd(FloatSum(SubSeq(chunk, 1, Len(chunk) - 1)), chunk[Len(chunk)])

\* max(chunk), min(chunk): the first item no later item is greater (less) than
RECURSIVE FloatMax(_)
FloatMax(chunk) ==
    IF Len(chunk) = 1 THEN chunk[1]
    ELSE LET m == FloatMax(SubSeq(chunk, 1, Len(chunk) - 1))
         IN  IF FloatLess(m, chunk[Len(chunk)]) THEN chunk[Len(chunk)] ELSE m

RECURSIVE FloatMin(_)
FloatMin(chunk) ==
    IF Len(chunk) = 1 THEN chunk[1]
    ELSE LET m == FloatMin(SubSeq(chunk, 1, Len(chunk) - 1))
         IN  IF FloatLess(chunk[Len(chunk)], m) THEN chunk[Len(chunk)] ELSE m

\* ChunkRecord averaging over the minutes of a chunk instead of its readings
ChunkRecordPerMinute(chunk_timestamp, chunk) ==
    [timestamp |-> chunk_timestamp,
     avg_power |-> FloatDivInt(FloatSum(chunk), ChunkMinutes),
     max_power |-> FloatMax(chunk),
     min_power |-> FloatMin(chunk),
     readings  |-> Len(chunk)]

\* lines 360-369 and 380-389: the record appended for a chunk
ChunkRecord(chunk_timestamp, chunk) ==
    [timestamp |-> chunk_timestamp,
     avg_power |-> FloatDivInt(FloatSum(chunk), Len(chunk)),
     max_power |-> FloatMax(chunk),
     min_power |-> FloatMin(chunk),
     readings  |-> Len(chunk)]

\* lines 359-369 and 379-389: `if current_chunk:` append its record
FlushChunk(data, chunk_timestamp, chunk) ==
    IF chunk # <<>> THEN Append(data, ChunkRecord(chunk_timestamp, chunk)) ELSE data

\* lines 323-326: the loop's variables before the first row
LoopStart ==
    [aggregated_data   |-> <<>>,
     current_chunk     |-> <<>>,
     current_timestamp |-> None,
     chunk_start_time  |-> None,
     timestamp         |-> None]

\* lines 329-347: the reading of a row, or None for a row that is skipped
\* (fewer than two fields, line 330; no timestamp format matches, line 341)
ParseRow(line) ==
    LET parts == StrSplit(line, ",")
    IN  IF Len(parts) < 2 THEN None
        ELSE LET timestamp_str == parts[1]
                 power_str     == parts[2]
             IN  IF ParseTimestamp(timestamp_str) = ValueError THEN None
                 ELSE [timestamp |-> ParseTimestamp(timestamp_str),
                       power     |-> ParsePower(power_str)]

\* Accumulate without line 373: the closed chunk's readings stay in the list
AccumulateKeepsChunk(st, reading) ==
    LET chunk_time == ChunkTime(reading.timestamp)
    IN  IF st.current_timestamp = None
        THEN [st EXCEPT !.timestamp = reading.timestamp,
                        !.current_timestamp = chunk_time,
                        !.chunk_start_time = reading.timestamp,
                        !.current_chunk = Append(@, reading.power)]
        ELSE IF chunk_time # st.current_timestamp
        THEN [st EXCEPT !.timestamp = reading.timestamp,
                        !.aggregated_data =
                            FlushChunk(st.aggregated_data, st.current_timestamp,
                                       st.current_chunk),
                        !.current_timestamp = chunk_time,
                        !.current_chunk = Append(@, reading.power),
                        !.chunk_start_time = reading.timestamp]
        ELSE [st EXCEPT !.timestamp = reading.timestamp,
                        !.current_chunk = Append(@, reading.power)]

\* Accumulate stamping the closed chunk with the new window (line 364)
AccumulateStampsNewWindow(st, reading) ==
    LET chunk_time == ChunkTime(reading.timestamp)
    IN  IF st.current_timestamp = None
        THEN [st EXCEPT !.timestamp = reading.timestamp,
                        !.current_timestamp = chunk_time,
                        !.chunk_start_time = reading.timestamp,
                        !.current_chunk = Append(@, reading.power)]
        ELSE IF chunk_time # st.current_timestamp
        THEN [st EXCEPT !.timestamp = reading.timestamp,
                        !.aggregated_data =
                            FlushChunk(st.aggregated_data, chunk_time,
                                       st.current_chunk),
                        !.current_timestamp = chunk_time,
                        !.current_chunk = <<reading.power>>,
                        !.chunk_start_time = reading.timestamp]
        ELSE [st EXCEPT !.timestamp = reading.timestamp,
                        !.current_chunk = Append(@, reading.power)]

\* Accumulate comparing the reading's own timestamp, not its window, with the
\* open window (line 357)
AccumulateComparesTimestamp(st, reading) ==
    LET chunk_time == ChunkTime(reading.timestamp)
    IN  IF st.current_timestamp = None
        THEN [st EXCEPT !.timestamp = reading.timestamp,
                        !.current_timestamp = chunk_time,
                        !.chunk_start_time = reading.timestamp,
                        !.current_chunk = Append(@, reading.power)]
        ELSE IF reading.timestamp # st.current_timestamp
        THEN [st EXCEPT !.timestamp = reading.timestamp,
                        !.aggregated_data =
                            FlushChunk(st.aggregated_data, st.current_timestamp,
                                       st.current_chunk),
                        !.current_timestamp = chunk_time,
                        !.current_chunk = <<reading.power>>,
                        !.chunk_start_time = reading.timestamp]
        ELSE [st EXCEPT !.timestamp = reading.timestamp,
                        !.current_chunk = Append(@, reading.power)]

\* Accumulate closing the open chunk for a reading of a later window only: the
\* reading of an earlier window joins the open chunk (line 357)
AccumulateClosesOnLaterWindow(st, reading) ==
    LET chunk_time == ChunkTime(reading.timestamp)
    IN  IF st.current_timestamp = None
        THEN [st EXCEPT !.timestamp = reading.timestamp,
                        !.current_timestamp = chunk_time,
                        !.chunk_start_time = reading.timestamp,
                        !.current_chunk = Append(@, reading.power)]
        ELSE IF chunk_time # st.current_timestamp
                /\ DatetimeLeq(st.current_timestamp, chunk_time)
        THEN [st EXCEPT !.timestamp = reading.timestamp,
                        !.aggregated_data =
                            FlushChunk(st.aggregated_data, st.current_timestamp,
                                       st.current_chunk),
                        !.current_timestamp = chunk_time,
                        !.current_chunk = <<reading.power>>,
                        !.chunk_start_time = reading.timestamp]
        ELSE [st EXCEPT !.timestamp = reading.timestamp,
                        !.current_chunk = Append(@, reading.power)]

\* lines 349-376: the reading is put into the open chunk, after the chunk of
\* another window is closed
Accumulate(st, reading) ==
    LET chunk_time == ChunkTime(reading.timestamp)
    IN  IF st.current_timestamp = None
        THEN [st EXCEPT !.timestamp = reading.timestamp,
                        !.current_timestamp = chunk_time,
                        !.chunk_start_time = reading.timestamp,
                        !.current_chunk = Append(@, reading.power)]
        ELSE IF chunk_time # st.current_timestamp
        THEN [st EXCEPT !.timestamp = reading.timestamp,
                        !.aggregated_data =
                            FlushChunk(st.aggregated_data, st.current_timestamp,
                                       st.current_chunk),
                        !.current_timestamp = chunk_time,
                        !.current_chunk = <<reading.power>>,
                        !.chunk_start_time = reading.timestamp]
        ELSE [st EXCEPT !.timestamp = reading.timestamp,
                        !.current_chunk = Append(@, reading.power)]

\* LoopEnd without the flush of the open chunk
LoopEndWithoutFlush(st) == st

\* lines 378-389: after the loop
LoopEnd(st) ==
    [st EXCEPT !.aggregated_data =
                   FlushChunk(st.aggregated_data, st.current_timestamp, st.current_chunk)]

(***************************************************************************)
(* Input: the rows of the CSV text the client returns (lines 310-317).      *)
(***************************************************************************)
MaxRows == 3

Pad2(n) == <<DigitChars[(n \div 10) + 1], DigitChars[(n % 10) + 1]>>

Pad4(n) == Pad2(n \div 100) \o Pad2(n % 100)

TimestampText(sep, t) ==
    Pad4(t.year) \o <<sep>> \o Pad2(t.month) \o <<sep>> \o Pad2(t.day) \o <<" ">>
        \o Pad2(t.hour) \o <<":">> \o Pad2(t.minute) \o <<":">> \o Pad2(t.second)

RowText(timestamp_str, power_str) == timestamp_str \o <<",">> \o power_str

At(day, hour, minute, second) ==
    [year |-> 2024, month |-> 1, day |-> day,
     hour |-> hour, minute |-> minute, second |-> second]

\* rows of clean telemetry: one window with three sample times, its last
\* second, the next window, the next hour and the next day
SampleTimes ==
    {At(5, 10, 0, 0), At(5, 10, 5, 0), At(5, 10, 10, 0), At(5, 10, 14, 59),
     At(5, 10, 15, 0), At(5, 11, 0, 0), At(6, 10, 0, 0)}

SamplePowers == {<<"1", "0", "0">>, <<"2", "0", "0">>, <<"3", "0", "0">>}

MalformedRows ==
    {<<"n", "o", " ", "d", "a", "t", "a">>,
     RowText(<<"2", "0", "2", "4", "/", "0", "1", "/", "0", "5", "T",
               "1", "0", ":", "2", "0", ":", "0", "0">>, <<"1", "0", "0">>)}

DataRows ==
    {RowText(TimestampText(IF t.day = 5 THEN "/" ELSE "-", t), p) :
        t \in SampleTimes, p \in SamplePowers} \cup MalformedRows

\* rows of noisy telemetry: two windows, power fields of every shape, rows
\* with a third field, and rows the loop cannot read.  Each power field comes
\* with what it spells: the numeral (-1)^neg * digits * 10^-frac, or no numeral.
NoisyTimes == {At(5, 10, 0, 0), At(5, 10, 20, 30)}

Numeral(text, neg, digits, frac) ==
    [text |-> text, numeral |-> TRUE, neg |-> neg, digits |-> digits, frac |-> frac]

NoNumeral(text) ==
    [text |-> text, numeral |-> FALSE, neg |-> FALSE, digits |-> 0, frac |-> 0]

PowerFields ==
    {Numeral(<<"0", ".", "1">>, FALSE, 1, 1),
     Numeral(<<"2", "5", "0">>, FALSE, 250, 0),
     Numeral(<<".", "5">>, FALSE, 5, 1),
     Numeral(<<"-", "5">>, TRUE, 5, 0),
     Numeral(<<"-", "0", ".", "5">>, TRUE, 5, 1),
     NoNumeral(<<"a", "b", "c">>),
     NoNumeral(<<>>),
     NoNumeral(<<"1", ".", "2", ".", "3">>),
     NoNumeral(<<"5", "-">>)}

WellFormedNoisyRows ==
    {RowText(TimestampText("/", t), p.text) : t \in NoisyTimes, p \in PowerFields}
        \cup {RowText(TimestampText("-", At(5, 10, 0, 0)),
                      <<"2", "5", "0", ",", "o", "k">>)}

MalformedNoisyRows ==
    {<<>>,
     <<"n", "o", " ", "d", "a", "t", "a">>,
     RowText(<<"2", "0", "2", "4", "/", "0", "1", "/", "0", "5", "T",
               "1", "0", ":", "2", "0", ":", "0", "0">>, <<"1", "0", "0">>),
     RowText(<<"2", "0", "2", "4", "/", "0", "2", "/", "3", "0", " ",
               "1", "0", ":", "2", "0", ":", "0", "0">>, <<"1", "0", "0">>),
     RowText(<<"2", "0", "2", "4", "/", "0", "1", "-", "0", "5", " ",
               "1", "0", ":", "2", "0", ":", "0", "0">>, <<"1", "0", "0">>)}

NoisyRows == WellFormedNoisyRows \cup MalformedNoisyRows

\* ParseRow, tabulated once over the rows of the model
RowReading == [line \in DataRows \cup NoisyRows |-> ParseRow(line)] @@ <<>>

\* lines 328-376: one pass of the loop body over `line`, from the variables st
LoopBody(st, line) ==
    IF RowReading[line] = None THEN st ELSE Accumulate(st, RowReading[line])

(***************************************************************************)
(* The efficiency analysis, client.calculate_system_efficiency, which the    *)
(* example calls at line 204.  Its code is in tigo_python/client.py; it is   *)
(* modelled here from the specification's section 4.3: the samples outside   *)
(* the productive hours are discarded, peak and average are taken over the   *)
(* rest and divided by the rated power, and a call without rated power or    *)
(* without a sample left returns the "insufficient data" result, a dict      *)
(* with the key 'error'.  The formulas are evaluated exactly, on readings    *)
(* of whole watts; a quotient is a fraction num/den.                         *)
(***************************************************************************)
MaxSamples == 3

ProductiveStartHour == 6

ProductiveEndHour == 20

ProductivityFloor == 50

ZeroDivisionError == [raised |-> "ZeroDivisionError"]

RECURSIVE Gcd(_, _)
Gcd(a, b) == IF b = 0 THEN a ELSE Gcd(b, a % b)

Abs(n) == IF n < 0 THEN -n ELSE n

\* n / d, in lowest terms
Quotient(n, d) ==
    IF d = 0 THEN ZeroDivisionError
    ELSE LET g == Gcd(Abs(n), Abs(d))
             sgn == IF d < 0 THEN -1 ELSE 1
         IN  [num |-> sgn * (n \div g), den |-> sgn * (d \div g)]

QuotientLeq(a, b) == a.num * b.den <= b.num * a.den

\* the samples whose time of day is in the productive hours
ProductiveSamples(samples) ==
    SelectSeq(samples, LAMBDA r : /\ ProductiveStartHour <= r.timestamp.hour
                                  /\ r.timestamp.hour < ProductiveEndHour)

RECURSIVE SumPower(_)
SumPower(samples) ==
    IF samples = <<>> THEN 0 ELSE Head(samples).power + SumPower(Tail(samples))

PeakPower(samples) ==
    CHOOSE m \in {samples[i].power : i \in 1..Len(samples)} :
        \A i \in 1..Len(samples) : samples[i].power <= m

\* InsufficientData without the check for an empty selection
InsufficientDataOfRatingOnly(system, daylight) ==
    IF "power_rating" \notin DOMAIN system THEN [error |-> "No rated power available"]
    ELSE IF system.power_rating = 0 THEN [error |-> "No rated power available"]
    ELSE None

\* the "insufficient data" result with its reason, or None when there are
\* data: rated power missing or zero, or no sample in the productive hours
InsufficientData(system, daylight) ==
    IF "power_rating" \notin DOMAIN system THEN [error |-> "No rated power available"]
    ELSE IF system.power_rating = 0 THEN [error |-> "No rated power available"]
    ELSE IF daylight = <<>> THEN [error |-> "No data in the productive hours"]
    ELSE None

\* EfficiencyReport with the average taken over the samples of all hours
EfficiencyReportOfAllHours(rated_power, samples, daylight, days_back) ==
    LET productive == SelectSeq(daylight, LAMBDA r : r.power > ProductivityFloor)
    IN  [rated_power_dc               |-> rated_power,
         peak_power                   |-> PeakPower(daylight),
         peak_efficiency              |-> Quotient(100 * PeakPower(daylight), rated_power),
         average_power_daylight       |-> Quotient(SumPower(samples), Len(samples)),
         average_efficiency_percent   |->
             Quotient(100 * SumPower(samples), Len(samples) * rated_power),
         capacity_factor              |->
             Quotient(100 * SumPower(daylight), Len(samples) * rated_power),
         analysis_period_days         |-> days_back,
         avg_productive_hours_per_day |-> Quotient(Len(productive), days_back),
         avg_daylight_hours_per_day   |-> Quotient(Len(daylight), days_back)]

\* the report over the samples of the productive hours
EfficiencyReport(rated_power, samples, daylight, days_back) ==
    LET productive == SelectSeq(daylight, LAMBDA r : r.power > ProductivityFloor)
    IN  [rated_power_dc               |-> rated_power,
         peak_power                   |-> PeakPower(daylight),
         peak_efficiency              |-> Quotient(100 * PeakPower(daylight), rated_power),
         average_power_daylight       |-> Quotient(SumPower(daylight), Len(daylight)),
         average_efficiency_percent   |->
             Quotient(100 * SumPower(daylight), Len(daylight) * rated_power),
         capacity_factor              |->
             Quotient(100 * SumPower(daylight), Len(samples) * rated_power),
         analysis_period_days         |-> days_back,
         avg_productive_hours_per_day |-> Quotient(Len(productive), days_back),
         avg_daylight_hours_per_day   |-> Quotient(Len(daylight), days_back)]

\* the divisors of the report's quotients
ReportDivisors(rated_power, samples, daylight, days_back) ==
    {rated_power, Len(daylight), Len(daylight) * rated_power,
     Len(samples) * rated_power, days_back}

\* the result of the call: the report, the dict with 'error', or the
\* exception of a division by zero
CalculateSystemEfficiency(system, samples, days_back) ==
    LET daylight == ProductiveSamples(samples)
        failure  == InsufficientData(system, daylight)
        report   == EfficiencyReport(system.power_rating, samples, daylight, days_back)
    IN  IF failure # None THEN failure
        ELSE IF 0 \in ReportDivisors(system.power_rating, samples, daylight, days_back)
        THEN ZeroDivisionError
        ELSE report

\* lines 220-230
Rating(eff_pct) ==
    IF ~QuotientLeq(eff_pct, Quotient(75, 1)) THEN "[EXCELLENT]"
    ELSE IF ~QuotientLeq(eff_pct, Quotient(60, 1)) THEN "[GOOD]"
    ELSE IF ~QuotientLeq(eff_pct, Quotient(45, 1)) THEN "[FAIR]"
    ELSE IF ~QuotientLeq(eff_pct, Quotient(30, 1)) THEN "[ACCEPTABLE]"
    ELSE "[POOR]"

\* lines 202-239: what the example prints of the result; an exception of the
\* call is caught at line 238
ShowResult(result) ==
    IF result = ZeroDivisionError THEN [warning |-> "Efficiency analysis error"]
    ELSE IF "error" \in DOMAIN result THEN [error |-> result.error]
    ELSE [rating |-> Rating(result.average_efficiency_percent)]

\* Input of the analysis: readings as the row loop parses them, of whole
\* watts, at night and at noon.
FloatToInt(f) ==
    LET mag == IF f.exp >= 0 THEN BigShl(f.man, f.exp) ELSE BigShr(f.man, -f.exp)
        n   == BigLow(mag) + LimbBase * BigLow(BigRest(mag))
    IN  IF f.neg THEN -n ELSE n

EfficiencyRows ==
    {RowText(TimestampText("/", At(5, h, 0, 0)), p) :
        h \in {3, 12},
        p \in {<<"-", "5">>, <<"0">>, <<"2", "5", "0", "0">>, <<"5", "0", "0", "0">>}}

EfficiencySamples ==
    {[timestamp |-> ParseRow(line).timestamp,
      power     |-> FloatToInt(ParseRow(line).power)] : line \in EfficiencyRows}

\* the system's record: no power rating, rated 0 W, rated 5000 W
Systems == {[system_id |-> 1], [system_id |-> 1, power_rating |-> 0],
            [system_id |-> 1, power_rating |-> 5000]}

AnalysisDays == {1, 14}

SampleSeqs(n) == UNION {[1..k -> EfficiencySamples] : k \in 0..n}

(***************************************************************************)
(* The panel analysis, client.find_underperforming_panels, which the         *)
(* example calls at line 256 when client.get_panel_performance returned     *)
(* panels.  Its code is in tigo_python/client.py; it is modelled here from  *)
(* the specification's section 4.4: a panel's mean and maximum are taken    *)
(* over its readings, its efficiency is 100 * mean / the best mean of the   *)
(* cohort, the panels with an efficiency below the threshold are returned   *)
(* by ascending efficiency, and a cohort whose best mean is zero has no     *)
(* panel returned.  A cohort is a function from panel ids to readings of    *)
(* whole watts; the formulas are evaluated exactly.                         *)
(***************************************************************************)
MaxPanels == 3

PanelIds == 1..MaxPanels

MeanPower(samples) == Quotient(SumPower(samples), Len(samples))

\* the maximum of the panels' means
BestMean(cohort) ==
    CHOOSE m \in {MeanPower(cohort[p]) : p \in DOMAIN cohort} :
        \A p \in DOMAIN cohort : QuotientLeq(MeanPower(cohort[p]), m)

\* 100 * mean / best
EfficiencyPercent(mean, best) == Quotient(100 * mean.num * best.den, mean.den * best.num)

PanelSummary(cohort, p) ==
    [panel_id           |-> p,
     mean_power         |-> MeanPower(cohort[p]),
     max_power          |-> PeakPower(cohort[p]),
     efficiency_percent |-> EfficiencyPercent(MeanPower(cohort[p]), BestMean(cohort))]

\* the summaries by ascending efficiency, then by panel id
RECURSIVE SortByEfficiency(_)
SortByEfficiency(summaries) ==
    IF summaries = {} THEN <<>>
    ELSE LET first == CHOOSE s \in summaries : \A t \in summaries :
                          \/ ~QuotientLeq(t.efficiency_percent, s.efficiency_percent)
                          \/ /\ t.efficiency_percent = s.efficiency_percent
                             /\ s.panel_id <= t.panel_id
         IN  <<first>> \o SortByEfficiency(summaries \ {first})

\* the outcome of a call that returns: its value
Returned(value) == [returned |-> value]

\* FindUnderperformingPanels returning the panels at the threshold too
FindUnderperformingPanelsAtThreshold(cohort, threshold_percent) ==
    IF BestMean(cohort).num = 0 THEN Returned(<<>>)
    ELSE Returned(SortByEfficiency(
             {PanelSummary(cohort, p) : p \in
                 {q \in DOMAIN cohort :
                     QuotientLeq(PanelSummary(cohort, q).efficiency_percent,
                                 Quotient(threshold_percent, 1))}}))

\* FindUnderperformingPanels without the guard of the division
FindUnderperformingPanelsUnguarded(cohort, threshold_percent) ==
    IF BestMean(cohort).num = 0 THEN ZeroDivisionError
    ELSE Returned(SortByEfficiency(
             {PanelSummary(cohort, p) : p \in
                 {q \in DOMAIN cohort :
                     ~QuotientLeq(Quotient(threshold_percent, 1),
                                  PanelSummary(cohort, q).efficiency_percent)}}))

\* the outcome of the call: the list of the summaries of the panels whose
\* efficiency is below the threshold, empty when the best mean is zero
FindUnderperformingPanels(cohort, threshold_percent) ==
    IF BestMean(cohort).num = 0 THEN Returned(<<>>)
    ELSE Returned(SortByEfficiency(
             {PanelSummary(cohort, p) : p \in
                 {q \in DOMAIN cohort :
                     ~QuotientLeq(Quotient(threshold_percent, 1),
                                  PanelSummary(cohort, q).efficiency_percent)}}))

\* lines 251-269: what the example prints of the panels; an exception of the
\* call is caught at line 271
ShowPanelsResult(cohort, outcome) ==
    IF DOMAIN cohort = {} THEN [info |-> "No panel-level data available"]
    ELSE IF outcome = ZeroDivisionError THEN [warning |-> "Panel analysis error"]
    ELSE IF outcome.returned # <<>>
    THEN [found  |-> Len(outcome.returned),
          panels |-> [i \in 1..Len(outcome.returned) |-> outcome.returned[i].panel_id]]
    ELSE [success |-> "All panels performing above 85% threshold"]

\* Input of the panel analysis: readings of whole watts at noon
Watts(powers) ==
    [i \in 1..Len(powers) |-> [timestamp |-> At(5, 12, 0, 0), power |-> powers[i]]]

PanelReadings ==
    {Watts(<<0>>), Watts(<<0, 0>>), Watts(<<40>>), Watts(<<95>>), Watts(<<100>>),
     Watts(<<100, 70>>), Watts(<<-5>>)}

Cohorts == UNION {[ids -> PanelReadings] : ids \in SUBSET PanelIds}

\* the example passes 85.0 (line 258)
Thresholds == {40, 85, 100, 120}

(***************************************************************************)
(* State.  rows and readings are history: the rows read so far and the      *)
(* readings parsed from them.                                               *)
(***************************************************************************)
VARIABLES
    pc,                 \* "loop" while rows are read, "done" after line 389
    aggregated_data,    \* line 323
    current_chunk,      \* line 324
    current_timestamp,  \* line 325
    chunk_start_time,   \* line 326
    timestamp,          \* line 336/339: the last timestamp parsed
    rows,
    readings,
    efficiency,         \* line 204: None before the call
    shown,              \* lines 206-232: what the example prints of it
    analysis,           \* history: the arguments of the call of line 204
    problems,           \* line 256: None before the call
    panels_shown,       \* lines 251-269: what the example prints of it
    panel_analysis      \* history: the cohort and the threshold of line 256

vars == <<pc, aggregated_data, current_chunk, current_timestamp,
          chunk_start_time, timestamp, rows, readings,
          efficiency, shown, analysis,
          problems, panels_shown, panel_analysis>>

loopVars == <<pc, aggregated_data, current_chunk, current_timestamp,
              chunk_start_time, timestamp, rows, readings>>

efficiencyVars == <<efficiency, shown, analysis>>

panelVars == <<problems, panels_shown, panel_analysis>>

Locals ==
    [aggregated_data   |-> aggregated_data,
     current_chunk     |-> current_chunk,
     current_timestamp |-> current_timestamp,
     chunk_start_time  |-> chunk_start_time,
     timestamp         |-> timestamp]

SetLocals(st) ==
    /\ aggregated_data' = st.aggregated_data
    /\ current_chunk' = st.current_chunk
    /\ current_timestamp' = st.current_timestamp
    /\ chunk_start_time' = st.chunk_start_time
    /\ timestamp' = st.timestamp

Init ==
    /\ pc = "loop"
    /\ aggregated_data = LoopStart.aggregated_data
    /\ current_chunk = LoopStart.current_chunk
    /\ current_timestamp = LoopStart.current_timestamp
    /\ chunk_start_time = LoopStart.chunk_start_time
    /\ timestamp = LoopStart.timestamp
    /\ rows = <<>>
    /\ readings = <<>>
    /\ efficiency = None
    /\ shown = None
    /\ analysis = None
    /\ problems = None
    /\ panels_shown = None
    /\ panel_analysis = None

\* one pass of `for line in data_rows` (lines 328-376)
ProcessRow(line) ==
    /\ pc = "loop"
    /\ Len(rows) < MaxRows
    /\ SetLocals(LoopBody(Locals, line))
    /\ rows' = Append(rows, line)
    /\ readings' = IF RowReading[line] = None THEN readings
                   ELSE Append(readings, RowReading[line])
    /\ pc' = pc
    /\ UNCHANGED efficiencyVars
    /\ UNCHANGED panelVars

\* data_rows is exhausted: lines 378-389
EndOfRows ==
    /\ pc = "loop"
    /\ SetLocals(LoopEnd(Locals))
    /\ pc' = "done"
    /\ UNCHANGED <<rows, readings>>
    /\ UNCHANGED efficiencyVars
    /\ UNCHANGED panelVars

\* the row keeps the readings in chronological order
Chronological(line) ==
    RowReading[line] # None /\ timestamp # None
        => DatetimeLeq(timestamp, RowReading[line].timestamp)

ReadOrderedRow == \E line \in DataRows : Chronological(line) /\ ProcessRow(line)

Next == ReadOrderedRow \/ EndOfRows

Spec == Init /\ [][Next]_vars

\* rows of noisy telemetry, in any order
ReadNoisyRow == \E line \in NoisyRows : ProcessRow(line)

NextNoisy == ReadNoisyRow \/ EndOfRows

SpecNoisy == Init /\ [][NextNoisy]_vars

\* line 204: efficiency = client.calculate_system_efficiency(...)
CallEfficiency ==
    /\ efficiency = None
    /\ \E system \in Systems, days_back \in AnalysisDays,
          samples \in SampleSeqs(MaxSamples) :
           /\ efficiency' = CalculateSystemEfficiency(system, samples, days_back)
           /\ analysis' = [system |-> system, samples |-> samples,
                           days_back |-> days_back]
    /\ UNCHANGED shown
    /\ UNCHANGED loopVars
    /\ UNCHANGED panelVars

\* lines 206-236
ShowEfficiency ==
    /\ efficiency # None
    /\ shown = None
    /\ shown' = ShowResult(efficiency)
    /\ UNCHANGED <<efficiency, analysis>>
    /\ UNCHANGED loopVars
    /\ UNCHANGED panelVars

NextEfficiency == CallEfficiency \/ ShowEfficiency

SpecEfficiency == Init /\ [][NextEfficiency]_vars

\* lines 249-260: panel_perf = client.get_panel_performance(...), and when it
\* is not empty problems = client.find_underperforming_panels(...)
CallFindUnderperformingPanels ==
    /\ panel_analysis = None
    /\ \E cohort \in Cohorts, threshold_percent \in Thresholds :
           /\ problems' = IF DOMAIN cohort = {} THEN None
                          ELSE FindUnderperformingPanels(cohort, threshold_percent)
           /\ panel_analysis' = [cohort |-> cohort,
                                 threshold_percent |-> threshold_percent]
    /\ UNCHANGED panels_shown
    /\ UNCHANGED loopVars
    /\ UNCHANGED efficiencyVars

\* lines 262-269
ShowPanels ==
    /\ panel_analysis # None
    /\ panels_shown = None
    /\ panels_shown' = ShowPanelsResult(panel_analysis.cohort, problems)
    /\ UNCHANGED <<problems, panel_analysis>>
    /\ UNCHANGED loopVars
    /\ UNCHANGED efficiencyVars

NextPanels == CallFindUnderperformingPanels \/ ShowPanels

SpecPanels == Init /\ [][NextPanels]_vars

(***************************************************************************)
(* Properties.                                                              *)
(***************************************************************************)
\* the window of a timestamp: its quarter of the hour
WindowStart(t) == [t EXCEPT !.minute = t.minute - (t.minute % 15), !.second = 0]

\* the powers of the readings of window w, in the order read
WindowPowers(w) ==
    LET inw == SelectSeq(readings, LAMBDA r : WindowStart(r.timestamp) = w)
    IN  [i \in 1..Len(inw) |-> inw[i].power]

RECURSIVE SumReadings(_)
SumReadings(data) ==
    IF data = <<>> THEN 0 ELSE Head(data).readings + SumReadings(Tail(data))

BucketTimes == {aggregated_data[i].timestamp : i \in 1..Len(aggregated_data)}

\* C1: bucket coverage.  After the final flush of a non-empty chronological
\* sequence of readings, the 'readings' counts of the emitted buckets add up
\* to the number of readings read.
BucketCoverage ==
    pc = "done" /\ readings # <<>> => SumReadings(aggregated_data) = Len(readings)

BucketCoverageWitness ==
    pc = "done" /\ Len(readings) = 3 /\ Len(aggregated_data) = 2

\* C2: bucket ordering.  On chronological input every emitted bucket's
\* timestamp is strictly later than that of the bucket emitted before it.
BucketOrdering ==
    \A i \in 1..(Len(aggregated_data) - 1) :
        /\ DatetimeLeq(aggregated_data[i].timestamp, aggregated_data[i + 1].timestamp)
        /\ aggregated_data[i].timestamp # aggregated_data[i + 1].timestamp

BucketOrderingWitness ==
    /\ Len(aggregated_data) = 3
    /\ aggregated_data[2].timestamp.day # aggregated_data[3].timestamp.day

\* C3: exactly one bucket per occupied window.  On chronological input, once
\* the input is exhausted the windows of the emitted buckets are the windows
\* some reading falls in, no window has two buckets, and at any time every
\* emitted bucket counts at least one reading.
OneBucketPerOccupiedWindow ==
    /\ \A i \in 1..Len(aggregated_data) : aggregated_data[i].readings >= 1
    /\ Cardinality(BucketTimes) = Len(aggregated_data)
    /\ BucketTimes \subseteq {WindowStart(readings[i].timestamp) : i \in 1..Len(readings)}
    /\ pc = "done" =>
           BucketTimes = {WindowStart(readings[i].timestamp) : i \in 1..Len(readings)}

\* two readings in 10:00, one in 11:00, and no bucket for the empty windows
\* between them
OneBucketPerOccupiedWindowWitness ==
    /\ pc = "done"
    /\ Len(readings) = 3
    /\ BucketTimes = {At(5, 10, 0, 0), At(5, 11, 0, 0)}

\* C4: bucket statistics.  On chronological input every emitted bucket counts
\* the readings of its window, its max_power and min_power are the largest and
\* smallest power among them, and its avg_power is their sum divided by their
\* number.
BucketStatistics ==
    \A i \in 1..Len(aggregated_data) :
        LET b == aggregated_data[i]
            P == WindowPowers(b.timestamp)
        IN  /\ b.readings = Len(P)
            /\ \E k \in 1..Len(P) : P[k] = b.max_power
            /\ \A k \in 1..Len(P) : FloatLeq(P[k], b.max_power)
            /\ \E k \in 1..Len(P) : P[k] = b.min_power
            /\ \A k \in 1..Len(P) : FloatLeq(b.min_power, P[k])
            /\ b.avg_power = FloatDivInt(FloatSum(P), Len(P))

\* 100 W, 200 W and 300 W at 10:00, 10:05 and 10:10 give one bucket with
\* average 200, maximum 300, minimum 100 and count 3
BucketStatisticsWitness ==
    /\ pc = "done"
    /\ [i \in 1..Len(readings) |-> readings[i].timestamp.minute] = <<0, 5, 10>>
    /\ aggregated_data =
           <<[timestamp |-> At(5, 10, 0, 0),
              avg_power |-> FloatOfDecimal(FALSE, 200, 0),
              max_power |-> FloatOfDecimal(FALSE, 300, 0),
              min_power |-> FloatOfDecimal(FALSE, 100, 0),
              readings  |-> 3]>>

\* C5: window assignment.  The window a reading is put in is the reading's
\* timestamp with the minute lowered to a multiple of 15 and the second set to
\* zero, date and hour kept: it starts at or before the reading and less than
\* 15 minutes before it.  (Every reading is the last reading when it is read.)
WindowAssignment ==
    pc = "loop" /\ readings # <<>> =>
        LET t == readings[Len(readings)].timestamp
            w == current_timestamp
        IN  /\ current_chunk # <<>>
            /\ current_chunk[Len(current_chunk)] = readings[Len(readings)].power
            /\ <<w.year, w.month, w.day, w.hour>> = <<t.year, t.month, t.day, t.hour>>
            /\ w.minute \in {0, 15, 30, 45}
            /\ w.second = 0
            /\ w.minute * 60 <= t.minute * 60 + t.second
            /\ t.minute * 60 + t.second < (w.minute + 15) * 60

\* the reading of 10:14:59 is put in the window of 10:00:00
WindowAssignmentWitness ==
    /\ pc = "loop"
    /\ readings # <<>>
    /\ readings[Len(readings)].timestamp = At(5, 10, 14, 59)
    /\ current_timestamp = At(5, 10, 0, 0)

\* C6: mean bound.  Every emitted bucket has min_power <= avg_power <= max_power.
MeanBound ==
    \A i \in 1..Len(aggregated_data) :
        /\ FloatLeq(aggregated_data[i].min_power, aggregated_data[i].avg_power)
        /\ FloatLeq(aggregated_data[i].avg_power, aggregated_data[i].max_power)

\* the value of a power field of the model's rows
FieldValue(p) ==
    IF p.numeral THEN FloatOfDecimal(p.neg, p.digits, p.frac) ELSE FloatZero

IsWellFormed(line) == line \in WellFormedNoisyRows

\* the rows of data_rows run through the loop and the final flush
RECURSIVE RunLoop(_)
RunLoop(data_rows) ==
    IF data_rows = <<>> THEN LoopStart
    ELSE LoopBody(RunLoop(SubSeq(data_rows, 1, Len(data_rows) - 1)),
                  data_rows[Len(data_rows)])

Aggregated(data_rows) == LoopEnd(RunLoop(data_rows)).aggregated_data

\* C7: malformed rows are skipped without effect.  Reading a row with fewer
\* than two fields, or with a first field neither timestamp format matches,
\* yields no reading and leaves the open chunk, the open window and the
\* emitted buckets as they were, the loop goes on, and the final output is the
\* output for the rows without the malformed ones.
MalformedRowsSkipped ==
    /\ [][rows' # rows /\ rows'[Len(rows')] \in MalformedNoisyRows
            => /\ UNCHANGED <<aggregated_data, current_chunk, current_timestamp,
                              readings>>
               /\ pc' = "loop"]_vars
    /\ [](pc = "done" => aggregated_data = Aggregated(SelectSeq(rows, IsWellFormed)))

\* a malformed row between two readings of one window: one bucket of two
MalformedRowsSkippedWitness ==
    /\ pc = "done"
    /\ Len(rows) = 3
    /\ rows[2] \in MalformedNoisyRows
    /\ Len(aggregated_data) = 1
    /\ aggregated_data[1].readings = 2

\* C8 as claimed: power zero-defaulting.  Every row with a valid timestamp
\* yields a reading; its power is the value of the power field when the field
\* is a numeral without a minus sign, and 0.0 otherwise.
PowerZeroDefaulting ==
    /\ Len(readings) = Len(SelectSeq(rows, IsWellFormed))
    /\ \A t \in NoisyTimes, p \in PowerFields :
           rows # <<>> /\ rows[Len(rows)] = RowText(TimestampText("/", t), p.text)
               => /\ readings[Len(readings)].timestamp = t
                  /\ readings[Len(readings)].power =
                         IF p.neg THEN FloatZero ELSE FieldValue(p)

\* C8 as amended: every row with a valid timestamp yields a reading; its power
\* is the value of the power field when the field is a decimal numeral (digits
\* with at most one point, after at most one leading minus sign), negative
\* with the minus sign, and 0.0 for every other field.
PowerParsing ==
    /\ Len(readings) = Len(SelectSeq(rows, IsWellFormed))
    /\ \A t \in NoisyTimes, p \in PowerFields :
           rows # <<>> /\ rows[Len(rows)] = RowText(TimestampText("/", t), p.text)
               => /\ readings[Len(readings)].timestamp = t
                  /\ readings[Len(readings)].power = FieldValue(p)

\* the field -5 read as -5.0, after a field that is no numeral read as 0
PowerParsingWitness ==
    /\ Len(readings) = 2
    /\ readings[1].power = FloatZero
    /\ rows[Len(rows)] = RowText(TimestampText("/", At(5, 10, 0, 0)), <<"-", "5">>)
    /\ readings[2].power = FloatOfDecimal(TRUE, 5, 0)

\* the call had no rated power, or no sample in the productive hours
NoRatedPower ==
    "power_rating" \notin DOMAIN analysis.system \/ analysis.system.power_rating = 0

NoProductiveSample ==
    \A i \in 1..Len(analysis.samples) :
        \/ analysis.samples[i].timestamp.hour < 6
        \/ analysis.samples[i].timestamp.hour >= 20

\* C9: insufficient-data guard.  A call with rated power zero or missing, or
\* with no sample in the productive hours, returns the result with the key
\* 'error' and a reason, not a report and not a division by zero, whatever the
\* samples and the period; the example then prints the error.
InsufficientDataGuard ==
    efficiency # None /\ (NoRatedPower \/ NoProductiveSample) =>
        /\ efficiency # ZeroDivisionError
        /\ DOMAIN efficiency = {"error"}
        /\ efficiency.error # ""
        /\ shown # None => shown = [error |-> efficiency.error]

\* rated 5000 W and three samples, all at night
InsufficientDataGuardWitness ==
    /\ shown # None
    /\ ~NoRatedPower
    /\ Len(analysis.samples) = 3
    /\ NoProductiveSample
    /\ "error" \in DOMAIN efficiency

IsReport == efficiency # None /\ "peak_efficiency" \in DOMAIN efficiency

CohortOfCall == panel_analysis.cohort

PanelSum(p) == SumPower(CohortOfCall[p])

PanelLen(p) == Len(CohortOfCall[p])

\* a panel whose mean no panel's mean exceeds
BestPanels ==
    {b \in DOMAIN CohortOfCall :
        \A p \in DOMAIN CohortOfCall :
            PanelSum(p) * PanelLen(b) <= PanelSum(b) * PanelLen(p)}

\* the panels the call returned
ReturnedPanels ==
    {problems.returned[i].panel_id : i \in 1..Len(problems.returned)}

\* C11: underperformance flagging.  For a cohort whose best mean is positive,
\* the call returns, once each, the panels whose 100 * mean / best mean is
\* strictly below the threshold and no other panel, every returned summary
\* carries that efficiency, a panel at the threshold is not returned, and the
\* best panel is not returned for a threshold of at most 100.
UnderperformanceFlagging ==
    panel_analysis # None /\ (\E b \in BestPanels : PanelSum(b) > 0) =>
        /\ problems # ZeroDivisionError
        /\ Len(problems.returned) = Cardinality(ReturnedPanels)
        /\ \A p \in DOMAIN CohortOfCall, b \in BestPanels :
               /\ p \in ReturnedPanels
                      <=> 100 * PanelSum(p) * PanelLen(b)
                              < panel_analysis.threshold_percent * PanelSum(b) * PanelLen(p)
               /\ 100 * PanelSum(p) * PanelLen(b)
                      = panel_analysis.threshold_percent * PanelSum(b) * PanelLen(p)
                      => p \notin ReturnedPanels
               /\ panel_analysis.threshold_percent <= 100 => b \notin ReturnedPanels
        /\ \A i \in 1..Len(problems.returned), b \in BestPanels :
               LET s == problems.returned[i]
               IN  s.efficiency_percent.num * PanelSum(b) * PanelLen(s.panel_id)
                       = s.efficiency_percent.den * 100 * PanelSum(s.panel_id) * PanelLen(b)

\* means 100, 95 and 40 at the threshold 85: only the panel of 40 is returned
\* and printed
UnderperformanceFlaggingWitness ==
    /\ panel_analysis # None
    /\ DOMAIN CohortOfCall = {1, 2, 3}
    /\ <<PanelSum(1), PanelSum(2), PanelSum(3)>> = <<100, 95, 40>>
    /\ <<PanelLen(1), PanelLen(2), PanelLen(3)>> = <<1, 1, 1>>
    /\ panel_analysis.threshold_percent = 85
    /\ ReturnedPanels = {3}
    /\ problems.returned[1].efficiency_percent = Quotient(40, 1)
    /\ panels_shown = [found |-> 1, panels |-> <<3>>]

\* every panel of the cohort has the mean zero
AllMeansZero ==
    /\ DOMAIN CohortOfCall # {}
    /\ \A p \in DOMAIN CohortOfCall : PanelSum(p) = 0

\* C12: degenerate cohorts.  For a cohort of one panel, and for a cohort whose
\* panels all have the mean zero, the call returns a list, whatever the
\* threshold: no division by zero and no other exception reaches the example;
\* for the cohort of zero means the list is empty and the example prints that
\* all panels perform.
DegenerateCohorts ==
    panel_analysis # None /\ (Cardinality(DOMAIN CohortOfCall) = 1 \/ AllMeansZero) =>
        /\ problems # ZeroDivisionError
        /\ DOMAIN problems = {"returned"}
        /\ AllMeansZero => problems.returned = <<>>
        /\ panels_shown # None => "warning" \notin DOMAIN panels_shown
        /\ panels_shown # None /\ AllMeansZero => "success" \in DOMAIN panels_shown

\* two panels of zero watts at the threshold 120: nothing returned
DegenerateCohortsWitness ==
    /\ panel_analysis # None
    /\ Cardinality(DOMAIN CohortOfCall) = 2
    /\ AllMeansZero
    /\ panel_analysis.threshold_percent = 120
    /\ problems = Returned(<<>>)
    /\ panels_shown # None

\* the readings run through the chunking of the loop and the final flush
RECURSIVE AccumulateAll(_)
AccumulateAll(rs) ==
    IF rs = <<>> THEN LoopStart
    ELSE Accumulate(AccumulateAll(SubSeq(rs, 1, Len(rs) - 1)), rs[Len(rs)])

\* the buckets of data taken as readings, each at its window with its average
\* as power, and aggregated again
Reaggregated(data) ==
    LoopEnd(AccumulateAll([i \in 1..Len(data) |->
                [timestamp |-> data[i].timestamp, power |-> data[i].avg_power]]
            )).aggregated_data

\* n * x for an int n > 0, rounded once
RECURSIVE BigTimes(_, _)
BigTimes(a, n) == IF n = 0 THEN <<>> ELSE BigAdd(BigTimes(a, n - 1), a)

FloatMulInt(x, n) == FloatRound(x.neg, BigTimes(x.man, n), x.exp, FALSE)

\* C13: re-aggregation idempotence.  The buckets emitted for chronological
\* readings, aggregated again as readings at their windows with their averages
\* as powers, give as many buckets with the same timestamps in the same order;
\* each of them holds one average, so its avg_power is the original avg_power,
\* and so is that average weighted by the original count.
ReaggregationIdempotence ==
    LET again == Reaggregated(aggregated_data)
    IN  /\ Len(again) = Len(aggregated_data)
        /\ \A i \in 1..Len(again) :
               /\ again[i].timestamp = aggregated_data[i].timestamp
               /\ again[i].readings = 1
               /\ again[i].avg_power = aggregated_data[i].avg_power
               /\ FloatDivInt(FloatMulInt(again[i].avg_power,
                                          aggregated_data[i].readings),
                              aggregated_data[i].readings)
                      = aggregated_data[i].avg_power

\* 100 W, 100 W and 200 W in one window and the average 133.33333333333334,
\* which aggregating again gives back
ReaggregationIdempotenceWitness ==
    /\ pc = "done"
    /\ Len(readings) = 3
    /\ Len(aggregated_data) = 1
    /\ aggregated_data[1].avg_power = FloatDivInt(FloatOfDecimal(FALSE, 400, 0), 3)
    /\ Reaggregated(aggregated_data) =
           <<[aggregated_data[1] EXCEPT !.readings = 1,
                                        !.max_power = aggregated_data[1].avg_power,
                                        !.min_power = aggregated_data[1].avg_power]>>

\* the readings at the end of the input that share the last reading's window
RECURSIVE TrailingRun(_)
TrailingRun(rs) ==
    IF Len(rs) <= 1 THEN rs
    ELSE IF WindowStart(rs[Len(rs) - 1].timestamp) = WindowStart(rs[Len(rs)].timestamp)
    THEN Append(TrailingRun(SubSeq(rs, 1, Len(rs) - 1)), rs[Len(rs)])
    ELSE <<rs[Len(rs)]>>

\* C14: unconditional final flush.  Once the input is exhausted, if a reading
\* was parsed there is a bucket, and the last bucket is the open chunk: it has
\* the window of the last reading and counts it with the readings of that
\* window read just before it, a single reading included; if no reading was
\* parsed there is no bucket.
FinalFlush ==
    pc = "done" =>
        IF readings = <<>> THEN aggregated_data = <<>>
        ELSE LET last == aggregated_data[Len(aggregated_data)]
                 run  == TrailingRun(readings)
             IN  /\ aggregated_data # <<>>
                 /\ last = ChunkRecord(WindowStart(readings[Len(readings)].timestamp),
                                       [i \in 1..Len(run) |-> run[i].power])
                 /\ last.readings = Len(current_chunk)
                 /\ current_chunk[Len(current_chunk)] = readings[Len(readings)].power

\* one reading between two rows the loop skips: one bucket of one reading
FinalFlushWitness ==
    /\ pc = "done"
    /\ Len(rows) = 3
    /\ Len(readings) = 1
    /\ rows[1] \in MalformedNoisyRows
    /\ rows[3] \in MalformedNoisyRows
    /\ Len(aggregated_data) = 1
    /\ aggregated_data[1].readings = 1
    /\ aggregated_data[1].avg_power = readings[1].power

\* the number of adjacent readings whose windows differ
WindowChanges(rs) ==
    Cardinality({i \in 1..(Len(rs) - 1) :
                    WindowStart(rs[i].timestamp) # WindowStart(rs[i + 1].timestamp)})

\* C15: single-open-bucket flushing on any order of readings.  A step that
\* reads a reading closes the open chunk, appending its record, exactly when
\* the reading's window differs from the open window, whether later or
\* earlier, and then opens a chunk with the reading; otherwise the reading
\* joins the open chunk.  No step changes or removes an emitted bucket.  The
\* closed buckets number the adjacent readings whose windows differ, so after
\* the final flush there is one bucket more, and the counts of the buckets add
\* up to the number of readings.
SingleOpenBucket ==
    /\ [][readings' # readings =>
            LET reading == readings'[Len(readings')]
            IN  /\ current_timestamp' = WindowStart(reading.timestamp)
                /\ IF current_timestamp # None
                      /\ WindowStart(reading.timestamp) # current_timestamp
                   THEN /\ aggregated_data' =
                               Append(aggregated_data,
                                      ChunkRecord(current_timestamp, current_chunk))
                        /\ current_chunk' = <<reading.power>>
                   ELSE /\ aggregated_data' = aggregated_data
                        /\ current_chunk' = Append(current_chunk, reading.power)]_vars
    /\ [][/\ Len(aggregated_data') >= Len(aggregated_data)
          /\ SubSeq(aggregated_data', 1, Len(aggregated_data)) = aggregated_data]_vars
    /\ [](pc = "loop" => Len(aggregated_data) = WindowChanges(readings))
    /\ [](pc = "done" /\ readings # <<>> =>
            /\ Len(aggregated_data) = 1 + WindowChanges(readings)
            /\ SumReadings(aggregated_data) = Len(readings))

\* readings of the windows 10:15, 10:00 and 10:15, in this order: three buckets
\* of one reading, the first and the third with the same timestamp
SingleOpenBucketWitness ==
    /\ pc = "done"
    /\ Len(readings) = 3
    /\ [i \in 1..3 |-> WindowStart(readings[i].timestamp).minute] = <<15, 0, 15>>
    /\ Len(aggregated_data) = 3
    /\ aggregated_data[1].timestamp = aggregated_data[3].timestamp
    /\ SumReadings(aggregated_data) = 3
====
